---------------------------- MODULE Spec2Model ----------------------------
(***************************************************************************)
(* Plan2ics (Release/Ver1/Plan2ics.py): the ScheduleConverter object.      *)
(*                                                                         *)
(* A text (str) is a sequence of atoms.  An atom is a one-character string *)
(* for digits, ".", ":", " " and "\n", and a whole word (a run of letters, *)
(* or "#NV") otherwise.  A date is its proleptic Gregorian ordinal         *)
(* (datetime.date.toordinal), a datetime the number of wall-clock minutes  *)
(* since ordinal 0 (all lessons lie between 08:00 and 17:00, where the     *)
(* Europe/Berlin offset is constant within one day).                       *)
(***************************************************************************)
EXTENDS Integers, Sequences, FiniteSets, TLC

VARIABLES
    html_file,      \* self.html_file: the chosen file (by its content), or NoFile
    schedule_data,  \* self.schedule_data: insertion-ordered dict date -> day entry
    week_vars,      \* self.week_vars: monday -> BooleanVar value
    reminder_vars,  \* self.reminder_vars: 'before_first', 'end_previous'
    msg,            \* the messagebox shown by the handler that ran last ("" if none)
    written         \* what the handler that ran last wrote to disk (<<>> if nothing)

vars == <<html_file, schedule_data, week_vars, reminder_vars, msg, written>>

-----------------------------------------------------------------------------
(* Text: str.strip, str.split('\n'), int(), str[:3].lower()                *)

DigitChars == <<"0", "1", "2", "3", "4", "5", "6", "7", "8", "9">>

IsDigit(a) == \E i \in 1..Len(DigitChars) : DigitChars[i] = a

DigitVal(a) == (CHOOSE i \in 1..Len(DigitChars) : DigitChars[i] = a) - 1

IsSpace(a) == a \in {" ", "\n"}

\* word[:3].lower() of every word atom of the vocabulary
Lower3 ==
    [w \in {"Sep", "sep", "Jan", "Feb", "Okt", "Xyz", "Datum", "Tag", "Di", "Fr", "Mo",
            "Mathe", "Deutsch", "Sport", "Frei", "Betrieb", "Feiertag", "R101", "II"} |->
        CASE w \in {"Sep", "sep"} -> "sep"
          [] w = "Jan" -> "jan"
          [] w = "Feb" -> "feb"
          [] w = "Okt" -> "okt"
          [] w = "Xyz" -> "xyz"
          [] w = "Datum" -> "dat"
          [] w = "Tag" -> "tag"
          [] w = "Di" -> "di"
          [] w = "Fr" -> "fr"
          [] w = "Mo" -> "mo"
          [] w = "Mathe" -> "mat"
          [] w = "Deutsch" -> "deu"
          [] w = "Sport" -> "spo"
          [] w = "Frei" -> "fre"
          [] w = "Betrieb" -> "bet"
          [] w = "Feiertag" -> "fei"
          [] w = "R101" -> "r10"
          [] w = "II" -> "ii"]

\* \w of the regular expressions: a letter run or a digit
IsWordAtom(a) == a \in DOMAIN Lower3 \/ IsDigit(a)

RECURSIVE lstrip(_)
lstrip(t) == IF t # <<>> /\ IsSpace(Head(t)) THEN lstrip(Tail(t)) ELSE t

RECURSIVE rstrip(_)
rstrip(t) ==
    IF t # <<>> /\ IsSpace(t[Len(t)]) THEN rstrip(SubSeq(t, 1, Len(t) - 1)) ELSE t

strip(t) == rstrip(lstrip(t))

\* t.split('\n'): the pieces between the newline atoms (always at least one piece)
RECURSIVE split_lines(_)
split_lines(t) ==
    IF \A i \in 1..Len(t) : t[i] # "\n"
    THEN <<t>>
    ELSE LET k == CHOOSE i \in 1..Len(t) :
                      t[i] = "\n" /\ \A j \in 1..(i - 1) : t[j] # "\n"
         IN  <<SubSeq(t, 1, k - 1)>> \o split_lines(SubSeq(t, k + 1, Len(t)))

\* int(digits), for a sequence of digit atoms
RECURSIVE int(_)
int(ds) ==
    IF ds = <<>> THEN 0
    ELSE 10 * int(SubSeq(ds, 1, Len(ds) - 1)) + DigitVal(ds[Len(ds)])

-----------------------------------------------------------------------------
(* datetime.date                                                           *)

IsLeap(y) == (y % 4 = 0 /\ y % 100 # 0) \/ y % 400 = 0

DaysInMonth(y, m) ==
    CASE m \in {1, 3, 5, 7, 8, 10, 12} -> 31
      [] m \in {4, 6, 9, 11} -> 30
      [] OTHER -> IF IsLeap(y) THEN 29 ELSE 28

\* datetime.date(y, m, d) raises ValueError unless this holds
ValidDate(y, m, d) == m \in 1..12 /\ d >= 1 /\ d <= DaysInMonth(y, m)

RECURSIVE DaysBeforeMonth(_, _)
DaysBeforeMonth(y, m) ==
    IF m = 1 THEN 0 ELSE DaysBeforeMonth(y, m - 1) + DaysInMonth(y, m - 1)

\* datetime.date(y, m, d), as its ordinal (0001-01-01 is 1)
date(y, m, d) ==
    LET p == y - 1
    IN  p * 365 + (p \div 4) - (p \div 100) + (p \div 400) + DaysBeforeMonth(y, m) + d

\* date.weekday(): Monday is 0, Friday is 4
weekday(date_obj) == (date_obj + 6) % 7

-----------------------------------------------------------------------------
(* ScheduleConverter.__init__: the fixed tables                            *)

\* "HH:MM" as a text
HM(h1, h2, m1, m2) == <<DigitChars[h1 + 1], DigitChars[h2 + 1], ":",
                        DigitChars[m1 + 1], DigitChars[m2 + 1]>>

weekday_times ==
    (1 :> <<HM(0,8,0,0), HM(0,9,3,0)>>) @@ (3 :> <<HM(0,9,4,5), HM(1,1,1,5)>>) @@
    (5 :> <<HM(1,1,2,5), HM(1,2,1,0)>>) @@ (6 :> <<HM(1,2,5,5), HM(1,4,2,5)>>) @@
    (8 :> <<HM(1,4,3,5), HM(1,5,2,0)>>) @@ (9 :> <<HM(1,5,3,0), HM(1,7,0,0)>>)

friday_times ==
    (1 :> <<HM(0,8,0,0), HM(0,9,3,0)>>) @@ (3 :> <<HM(0,9,4,5), HM(1,1,1,5)>>) @@
    (5 :> <<HM(1,1,3,0), HM(1,3,0,0)>>) @@ (7 :> <<HM(1,3,0,0), HM(1,4,3,0)>>)

ignore_subjects == {<<"#NV">>, <<"Frei">>, <<"Betrieb">>, <<"Feiertag">>, <<>>, <<" ">>}

month_map ==
    [k \in {"jan", "feb", "mär", "apr", "mai", "jun",
            "jul", "aug", "sep", "okt", "nov", "dez"} |->
        CASE k = "jan" -> 1 [] k = "feb" -> 2  [] k = "mär" -> 3  [] k = "apr" -> 4
          [] k = "mai" -> 5 [] k = "jun" -> 6  [] k = "jul" -> 7  [] k = "aug" -> 8
          [] k = "sep" -> 9 [] k = "okt" -> 10 [] k = "nov" -> 11 [] k = "dez" -> 12]

\* datetime.datetime.strptime(t, "%H:%M").time(), in minutes after midnight
strptime(t) ==
    (10 * DigitVal(t[1]) + DigitVal(t[2])) * 60 + 10 * DigitVal(t[4]) + DigitVal(t[5])

\* timezone.localize(datetime.datetime.combine(date_obj, time))
combine(date_obj, time) == date_obj * 1440 + time

-----------------------------------------------------------------------------
(* The insertion-ordered dict self.schedule_data, as a sequence of entries *)
(* [date, day, subjects]                                                   *)

keys(data) == {data[i].date : i \in 1..Len(data)}

lookup(data, date_obj) ==
    data[CHOOSE i \in 1..Len(data) : data[i].date = date_obj]

\* mutant of setitem: a list that is appended to, not a dict
setitem_appends(data, entry) == Append(data, entry)

\* data[date_obj] = entry: an existing key keeps its position
setitem(data, entry) ==
    IF entry.date \in keys(data)
    THEN [i \in 1..Len(data) |-> IF data[i].date = entry.date THEN entry ELSE data[i]]
    ELSE Append(data, entry)

\* the members of a finite set of integers, ascending: sorted(...)
RECURSIVE sorted(_)
sorted(S) ==
    IF S = {} THEN <<>>
    ELSE LET m == CHOOSE x \in S : \A y \in S : x <= y
         IN  <<m>> \o sorted(S \ {m})

-----------------------------------------------------------------------------
(* parse_schedule                                                          *)

\* re.match(r'(\d{1,2})\.\s*(\w+)', t): [ok, day (digit atoms), month (first \w atom)]
date_match(t) ==
    LET nd == IF Len(t) >= 2 /\ IsDigit(t[1]) /\ IsDigit(t[2]) THEN 2
              ELSE IF Len(t) >= 1 /\ IsDigit(t[1]) THEN 1 ELSE 0
        rest == lstrip(SubSeq(t, nd + 2, Len(t)))
    IN  IF nd >= 1 /\ Len(t) >= nd + 1 /\ t[nd + 1] = "."
           /\ rest # <<>> /\ IsWordAtom(rest[1])
        THEN [ok |-> TRUE, day |-> SubSeq(t, 1, nd), month |-> rest[1]]
        ELSE [ok |-> FALSE, day |-> <<>>, month |-> ""]

\* month_map.get(month_name[:3], 1) with month_name = group(2).lower()
month_of(month_atom) ==
    IF month_atom \in DOMAIN Lower3 /\ Lower3[month_atom] \in DOMAIN month_map
    THEN month_map[Lower3[month_atom]]
    ELSE 1

\* lines 160-168: the rows kept as data rows
is_data_row(cells) ==
    /\ Len(cells) >= 12
    /\ strip(cells[1]) # <<>>
    /\ date_match(strip(cells[1])).ok

\* [line.strip() for line in subject_text.split('\n') if line.strip()]
subject_lines(cell) ==
    LET ls == split_lines(strip(cell))
    IN  SelectSeq([i \in 1..Len(ls) |-> strip(ls[i])], LAMBDA l : l # <<>>)

\* mutant of day_schedule_of: the ignored subjects are not filtered out
day_schedule_of_unfiltered(cells) ==
    LET recorded == {i \in 2..11 :
                        /\ i < Len(cells)
                        /\ subject_lines(cells[i + 1]) # <<>>}
    IN  [period \in {i - 1 : i \in recorded} |-> subject_lines(cells[period + 2])[1]]

\* lines 204-212: period -> subject for columns 2-11 of a row; column i of the
\* code (counted from 0) is cells[i + 1] here
day_schedule_of(cells) ==
    LET recorded == {i \in 2..11 :
                        /\ i < Len(cells)
                        /\ subject_lines(cells[i + 1]) # <<>>
                        /\ subject_lines(cells[i + 1])[1] \notin ignore_subjects}
    IN  [period \in {i - 1 : i \in recorded} |-> subject_lines(cells[period + 2])[1]]

\* lines 171-218 for one data row: the table after the row (cells[0] and cells[1]
\* of the code are cells[1] and cells[2] here)
parse_row(data, cells) ==
    LET date_text == strip(cells[1])
        day_text  == strip(cells[2])
        m         == date_match(date_text)
        day_num   == int(m.day)
        month_num == month_of(m.month)
        year      == IF month_num >= 8 THEN 2025 ELSE 2026
        day_schedule == day_schedule_of(cells)
    IN  IF Len(cells) < 12 \/ ~m.ok THEN data
        ELSE IF ~ValidDate(year, month_num, day_num) THEN data
        ELSE IF DOMAIN day_schedule = {} THEN data
        ELSE setitem(data, [date |-> date(year, month_num, day_num),
                            day |-> day_text,
                            subjects |-> day_schedule])

RECURSIVE parse_rows(_, _)
parse_rows(data, rows) ==
    IF rows = <<>> THEN data
    ELSE parse_rows(parse_row(data, Head(rows)), Tail(rows))

\* parse_schedule(soup) on a document with a table: self.schedule_data afterwards
parse_schedule(data, rows) ==
    parse_rows(data, SelectSeq(rows, is_data_row))

-----------------------------------------------------------------------------
(* display_weeks                                                           *)

monday_of(date_obj) == date_obj - weekday(date_obj)

\* lines 225-255: week_vars is cleared, then one BooleanVar(value=True) per Monday
display_weeks(data) == [monday \in {monday_of(d) : d \in keys(data)} |-> TRUE]

-----------------------------------------------------------------------------
(* generate_ics: the events of one date (lines 303-385)                    *)

\* mutant of is_friday: the weekday counted from 1
is_friday_from_one(date_obj) == weekday(date_obj) = 5

is_friday(date_obj) == weekday(date_obj) = 4

time_schedule_of(date_obj) == IF is_friday(date_obj) THEN friday_times ELSE weekday_times

\* mutant of previous_lessons_of: the first period is its own previous lesson
previous_lessons_with_first(sorted_periods) ==
    [period \in {sorted_periods[i] : i \in 1..Len(sorted_periods)} |->
        LET i == CHOOSE k \in 1..Len(sorted_periods) : sorted_periods[k] = period
        IN  sorted_periods[IF i = 1 THEN 1 ELSE i - 1]]

\* lines 316-319: period -> the period before it in sorted order
previous_lessons_of(sorted_periods) ==
    [period \in {sorted_periods[i] : i \in 2..Len(sorted_periods)} |->
        sorted_periods[(CHOOSE i \in 2..Len(sorted_periods) : sorted_periods[i] = period) - 1]]

\* int(x / y) for integers: truncation towards zero
int_div(x, y) == IF x >= 0 THEN x \div y ELSE -((-x) \div y)

\* mutant of end_previous_alarm: the previous lesson's start, not its end
end_previous_alarm_at_start(date_obj, subjects, period, rv) ==
    LET time_schedule    == time_schedule_of(date_obj)
        previous_lessons == previous_lessons_of(sorted(DOMAIN subjects))
        start_datetime   == combine(date_obj, strptime(time_schedule[period][1]))
    IN  IF rv.end_previous /\ period \in DOMAIN previous_lessons
        THEN LET previous_period == previous_lessons[period]
             IN  IF previous_period \in DOMAIN time_schedule
                 THEN LET prev_end_datetime ==
                              combine(date_obj, strptime(time_schedule[previous_period][1]))
                          time_diff == start_datetime - prev_end_datetime
                          minutes_diff == int_div(time_diff * 60, 60)
                      IN  <<[trigger |-> -minutes_diff,
                             description |-> "Next lesson preparation"]>>
                 ELSE <<>>
        ELSE <<>>

\* lines 360-379: the alarm at the end of the previous lesson, if any
end_previous_alarm(date_obj, subjects, period, rv) ==
    LET time_schedule    == time_schedule_of(date_obj)
        previous_lessons == previous_lessons_of(sorted(DOMAIN subjects))
        start_datetime   == combine(date_obj, strptime(time_schedule[period][1]))
    IN  IF rv.end_previous /\ period \in DOMAIN previous_lessons
        THEN LET previous_period == previous_lessons[period]
             IN  IF previous_period \in DOMAIN time_schedule
                 THEN LET prev_end_datetime ==
                              combine(date_obj, strptime(time_schedule[previous_period][2]))
                          time_diff == start_datetime - prev_end_datetime
                          minutes_diff == int_div(time_diff * 60, 60)
                      IN  <<[trigger |-> -minutes_diff,
                             description |-> "Next lesson preparation"]>>
                 ELSE <<>>
        ELSE <<>>

\* lines 351-358: the alarm before the first lesson of the day, if any
before_first_alarm(subjects, period, rv) ==
    LET sorted_periods == sorted(DOMAIN subjects)
        first_period   == sorted_periods[1]
    IN  IF rv.before_first /\ period = first_period
        THEN <<[trigger |-> -15, description |-> "First lesson starting soon"]>>
        ELSE <<>>

\* lines 327-385: the VEVENT of a period that has a time slot
event_of(date_obj, subjects, period, rv) ==
    LET time_schedule == time_schedule_of(date_obj)
    IN  [summary     |-> subjects[period],
         dtstart     |-> combine(date_obj, strptime(time_schedule[period][1])),
         dtend       |-> combine(date_obj, strptime(time_schedule[period][2])),
         description |-> period,
         alarms      |-> before_first_alarm(subjects, period, rv)
                         \o end_previous_alarm(date_obj, subjects, period, rv)]

\* lines 321-326: does the loop body emit an event for this period
emits(date_obj, subjects, period) ==
    /\ subjects[period] \notin ignore_subjects
    /\ period \in DOMAIN time_schedule_of(date_obj)

RECURSIVE day_events(_, _, _, _)
day_events(date_obj, subjects, periods, rv) ==
    IF periods = <<>> THEN <<>>
    ELSE (IF emits(date_obj, subjects, Head(periods))
          THEN <<event_of(date_obj, subjects, Head(periods), rv)>>
          ELSE <<>>)
         \o day_events(date_obj, subjects, Tail(periods), rv)

-----------------------------------------------------------------------------
(* generate_ics: the calendar (lines 281-385)                              *)

\* line 281: the selected Mondays, in the order of week_vars (ascending, line 238)
selected_weeks_of(wv) == sorted({monday \in DOMAIN wv : wv[monday]})

\* mutant of week_dates_of: the Monday itself is left out
week_dates_of_strict(data, monday) ==
    LET ds == [i \in 1..Len(data) |-> data[i].date]
    IN  SelectSeq(ds, LAMBDA date_obj : date_obj > monday /\ date_obj < monday + 7)

\* lines 298-301: the dates of a week, in the order of schedule_data
week_dates_of(data, monday) ==
    LET ds == [i \in 1..Len(data) |-> data[i].date]
    IN  SelectSeq(ds, LAMBDA date_obj : date_obj >= monday /\ date_obj < monday + 7)

RECURSIVE week_events(_, _, _)
week_events(data, dates, rv) ==
    IF dates = <<>> THEN <<>>
    ELSE LET subjects == lookup(data, Head(dates)).subjects
         IN  day_events(Head(dates), subjects, sorted(DOMAIN subjects), rv)
             \o week_events(data, Tail(dates), rv)

RECURSIVE calendar_events(_, _, _)
calendar_events(data, mondays, rv) ==
    IF mondays = <<>> THEN <<>>
    ELSE week_events(data, week_dates_of(data, Head(mondays)), rv)
         \o calendar_events(data, Tail(mondays), rv)

\* cal.to_ical(): the headers and the VEVENT blocks in order
to_ical(events) ==
    [prodid |-> "-//Berufsschule Schedule Converter//mxm.dk//",
     version |-> "2.0", calscale |-> "GREGORIAN",
     complete |-> TRUE, vevents |-> events]

\* a file that open(file_path, 'wb') created and the failed write left short
truncated_ics ==
    [prodid |-> "", version |-> "", calscale |-> "", complete |-> FALSE, vevents |-> <<>>]

-----------------------------------------------------------------------------
(* Files                                                                   *)

NoFile     == [kind |-> "none", table |-> FALSE, rows |-> <<>>]
Unreadable == [kind |-> "unreadable", table |-> FALSE, rows |-> <<>>]
NoTable    == [kind |-> "html", table |-> FALSE, rows |-> <<>>]
Html(rows) == [kind |-> "html", table |-> TRUE, rows |-> rows]

-----------------------------------------------------------------------------
(* The handlers                                                            *)

MsgSelectFile == "Please select an HTML file first!"
MsgReadFailed == "Failed to load schedule: cannot read"
MsgNoTable    == "Failed to load schedule: No table found in HTML file"
MsgLoaded     == "Schedule loaded successfully!"
MsgNoData     == "No schedule data loaded!"
MsgNoWeeks    == "No weeks selected!"
MsgSaved      == "Calendar saved successfully"
MsgSaveFailed == "Failed to save calendar"

Init ==
    /\ html_file = NoFile
    /\ schedule_data = <<>>
    /\ week_vars = display_weeks(<<>>)
    /\ reminder_vars = [before_first |-> TRUE, end_previous |-> TRUE]
    /\ msg = ""
    /\ written = <<>>

\* file_path = NoFile: the dialog was cancelled
browse_file(file_path) ==
    /\ html_file' = IF file_path.kind # "none" THEN file_path ELSE html_file
    /\ msg' = ""
    /\ written' = <<>>
    /\ UNCHANGED <<schedule_data, week_vars, reminder_vars>>

\* mutant of load_schedule: the table is emptied before the file is read
load_schedule_clears ==
    /\ written' = <<>>
    /\ UNCHANGED <<html_file, reminder_vars>>
    /\ IF html_file.kind = "none"
       THEN msg' = MsgSelectFile /\ UNCHANGED <<schedule_data, week_vars>>
       ELSE IF html_file.kind = "unreadable"
       THEN msg' = MsgReadFailed /\ schedule_data' = <<>> /\ UNCHANGED week_vars
       ELSE IF ~html_file.table
       THEN msg' = MsgNoTable /\ schedule_data' = <<>> /\ UNCHANGED week_vars
       ELSE LET parsed == parse_schedule(<<>>, html_file.rows)
            IN  /\ schedule_data' = parsed
                /\ week_vars' = display_weeks(parsed)
                /\ msg' = MsgLoaded

load_schedule ==
    /\ written' = <<>>
    /\ UNCHANGED <<html_file, reminder_vars>>
    /\ IF html_file.kind = "none"
       THEN msg' = MsgSelectFile /\ UNCHANGED <<schedule_data, week_vars>>
       ELSE IF html_file.kind = "unreadable"
       THEN msg' = MsgReadFailed /\ UNCHANGED <<schedule_data, week_vars>>
       ELSE IF ~html_file.table
       THEN msg' = MsgNoTable /\ UNCHANGED <<schedule_data, week_vars>>
       ELSE LET parsed == parse_schedule(schedule_data, html_file.rows)
            IN  /\ schedule_data' = parsed
                /\ week_vars' = display_weeks(parsed)
                /\ msg' = MsgLoaded

select_all_weeks ==
    /\ week_vars' = [monday \in DOMAIN week_vars |-> TRUE]
    /\ msg' = ""
    /\ written' = <<>>
    /\ UNCHANGED <<html_file, schedule_data, reminder_vars>>

deselect_all_weeks ==
    /\ week_vars' = [monday \in DOMAIN week_vars |-> FALSE]
    /\ msg' = ""
    /\ written' = <<>>
    /\ UNCHANGED <<html_file, schedule_data, reminder_vars>>

\* a click on the Checkbutton of one week (line 257)
toggle_week(monday) ==
    /\ monday \in DOMAIN week_vars
    /\ week_vars' = [week_vars EXCEPT ![monday] = ~@]
    /\ msg' = ""
    /\ written' = <<>>
    /\ UNCHANGED <<html_file, schedule_data, reminder_vars>>

\* a click on one of the reminder Checkbuttons (lines 103-109)
toggle_reminder(name) ==
    /\ reminder_vars' = [reminder_vars EXCEPT ![name] = ~@]
    /\ msg' = ""
    /\ written' = <<>>
    /\ UNCHANGED <<html_file, schedule_data, week_vars>>

\* mutant of generate_ics: the check for selected weeks is missing
generate_ics_unchecked(dialog) ==
    /\ UNCHANGED <<html_file, schedule_data, week_vars, reminder_vars>>
    /\ IF schedule_data = <<>>
       THEN msg' = MsgNoData /\ written' = <<>>
       ELSE LET cal == calendar_events(schedule_data, selected_weeks_of(week_vars),
                                       reminder_vars)
            IN  CASE dialog = "cancel"  -> msg' = "" /\ written' = <<>>
                  [] dialog = "save"    -> msg' = MsgSaved /\ written' = <<to_ical(cal)>>
                  [] dialog = "oserror" -> /\ msg' = MsgSaveFailed
                                           /\ written' \in {<<>>, <<truncated_ics>>}

\* dialog: "cancel" (no path chosen), "save" (written), "oserror" (the write raises)
generate_ics(dialog) ==
    /\ UNCHANGED <<html_file, schedule_data, week_vars, reminder_vars>>
    /\ IF schedule_data = <<>>
       THEN msg' = MsgNoData /\ written' = <<>>
       ELSE IF selected_weeks_of(week_vars) = <<>>
       THEN msg' = MsgNoWeeks /\ written' = <<>>
       ELSE LET cal == calendar_events(schedule_data, selected_weeks_of(week_vars),
                                       reminder_vars)
            IN  CASE dialog = "cancel"  -> msg' = "" /\ written' = <<>>
                  [] dialog = "save"    -> msg' = MsgSaved /\ written' = <<to_ical(cal)>>
                  [] dialog = "oserror" -> /\ msg' = MsgSaveFailed
                                           /\ written' \in {<<>>, <<truncated_ics>>}

-----------------------------------------------------------------------------
(* The files the user can choose                                           *)

MaxRows == 2

DateTue     == <<"0", "2", ".", " ", "Sep">>   \* 2025-09-02, a Tuesday
DateFri     == <<"5", ".", "sep">>             \* 2025-09-05, the Friday of that week
DateMon     == <<"1", "2", ".", " ", "Jan">>   \* 2026-01-12, a Monday
DateBad     == <<"3", "1", ".", " ", "Feb">>   \* no such day
DateUnknown == <<"1", "9", ".", "Xyz">>        \* unknown month: 2026-01-19, a Monday

\* a cell whose subject is recorded
subject_cell(p) ==
    CASE p % 3 = 0 -> <<"Deutsch", " ", "II", "\n", "R101">>
      [] p % 3 = 1 -> <<"Mathe", "\n">>
      [] OTHER     -> <<"\n", " ", "Sport">>

\* a cell whose subject is ignored
ignored_cell(p) ==
    CASE p % 5 = 0 -> <<"Frei">>
      [] p % 5 = 1 -> <<>>
      [] p % 5 = 2 -> <<"#NV", "\n", "Mathe">>
      [] p % 5 = 3 -> <<" ", "Feiertag", " ">>
      [] OTHER     -> <<"Betrieb", "\n">>

\* a row of 12 cells: date, day, and the periods 1-10, those of S with a subject
row_of(date_text, day_text, S) ==
    <<date_text, <<day_text>>>> \o
    [p \in 1..10 |-> IF p \in S THEN subject_cell(p) ELSE ignored_cell(p)]

AppRows ==
    { row_of(DateTue, "Di", {1}),
      row_of(DateFri, "Fr", {5, 7}),
      row_of(DateMon, "Mo", {1, 2, 3}) }

RECURSIVE SeqsUpTo(_, _)
SeqsUpTo(S, n) ==
    IF n = 0 THEN {<<>>}
    ELSE LET shorter == SeqsUpTo(S, n - 1)
         IN  shorter \cup {Append(q, x) : q \in shorter, x \in S}

AppFiles == {Unreadable, NoTable} \cup {Html(rows) : rows \in SeqsUpTo(AppRows, MaxRows)}

\* rows that parse_schedule skips: a header, a date that does not exist, 11 cells
HeaderRow  == <<<<"Datum">>, <<"Tag">>>> \o [p \in 1..10 |-> <<DigitChars[p]>>]
BadDateRow == row_of(DateBad, "Di", {1, 3})
ShortRow   == SubSeq(row_of(DateMon, "Mo", {3}), 1, 11)

MaxLessons == 3

\* the sets of at most MaxLessons periods
LessonSets == {S \in SUBSET (1..10) : Cardinality(S) <= MaxLessons}

\* one day with every such set of recorded periods, alone or after rows that are skipped
DayFiles ==
    {Html(<<row_of(d[1], d[2], S)>>) :
        d \in {<<DateTue, "Di">>, <<DateFri, "Fr">>, <<DateUnknown, "Mo">>},
        S \in LessonSets}
    \cup {Html(<<HeaderRow, BadDateRow, ShortRow, row_of(DateTue, "Di", S)>>) :
            S \in SUBSET {1, 2, 3}}

-----------------------------------------------------------------------------
(* Specifications                                                          *)

Next ==
    \/ \E file_path \in AppFiles \cup {NoFile} : browse_file(file_path)
    \/ load_schedule
    \/ select_all_weeks
    \/ deselect_all_weeks
    \/ \E monday \in DOMAIN week_vars : toggle_week(monday)
    \/ \E name \in {"before_first", "end_previous"} : toggle_reminder(name)
    \/ \E dialog \in {"cancel", "save", "oserror"} : generate_ics(dialog)

Spec == Init /\ [][Next]_vars

\* one file of one day, chosen before the first step
InitDay ==
    /\ html_file \in DayFiles
    /\ schedule_data = <<>>
    /\ week_vars = display_weeks(<<>>)
    /\ reminder_vars = [before_first |-> TRUE, end_previous |-> TRUE]
    /\ msg = ""
    /\ written = <<>>

NextDay ==
    \/ load_schedule
    \/ select_all_weeks
    \/ deselect_all_weeks
    \/ \E monday \in DOMAIN week_vars : toggle_week(monday)
    \/ \E name \in {"before_first", "end_previous"} : toggle_reminder(name)
    \/ \E dialog \in {"cancel", "save", "oserror"} : generate_ics(dialog)

SpecDay == InitDay /\ [][NextDay]_vars

-----------------------------------------------------------------------------
(* Properties                                                              *)

\* the export that ran last wrote a calendar
Saved == msg = MsgSaved /\ written # <<>>

\* the VEVENT blocks of that calendar
VEvents == written[1].vevents

\* the date of an event, and the positions of the events of a (date, period)
DateOf(e) == e.dtstart \div 1440

EventsAt(date_obj, period) ==
    {i \in 1..Len(VEvents) :
        DateOf(VEvents[i]) = date_obj /\ VEvents[i].description = period}

EventsOn(date_obj) == {i \in 1..Len(VEvents) : DateOf(VEvents[i]) = date_obj}

\* the time-slot table the specification names for a date
Applicable(date_obj) == IF weekday(date_obj) = 4 THEN friday_times ELSE weekday_times

\* the table one file alone yields
TableOf(file) == parse_schedule(<<>>, file.rows)

\* C1: after a successful load the ScheduleTable is exactly what the file just
\* loaded yields: no entry of an earlier load survives.
C1_ReloadReplaces ==
    msg = MsgLoaded =>
       /\ keys(schedule_data) = keys(TableOf(html_file))
       /\ \A d \in keys(schedule_data) :
             lookup(schedule_data, d) = lookup(TableOf(html_file), d)

\* C10: loading the same file again right after a successful load leaves the
\* ScheduleTable and the set of week buckets as they are.
C10_ReloadIdempotent ==
    [][(msg = MsgLoaded /\ load_schedule) =>
           /\ schedule_data' = schedule_data
           /\ DOMAIN week_vars' = DOMAIN week_vars
           /\ msg' = MsgLoaded]_vars

\* C10 witness: a file with two dates has been loaded and is still the chosen file.
C10_Witness ==
    /\ msg = MsgLoaded
    /\ Len(schedule_data) >= 2
    /\ keys(TableOf(html_file)) \subseteq keys(schedule_data)
    /\ Cardinality(keys(TableOf(html_file))) >= 2

\* C5: a load that fails (no file chosen, file unreadable, no table) leaves the
\* ScheduleTable, the week buckets and their selection flags as they were.
C5_FailedLoadKeepsState ==
    [][((html_file.kind # "html" \/ ~html_file.table) /\ load_schedule) =>
           /\ msg' \in {MsgSelectFile, MsgReadFailed, MsgNoTable}
           /\ schedule_data' = schedule_data
           /\ week_vars' = week_vars]_vars

\* C5 witness: a load has just failed for want of a table while a schedule with a
\* deselected week is held.
C5_Witness ==
    /\ msg = MsgNoTable
    /\ schedule_data # <<>>
    /\ \E monday \in DOMAIN week_vars : ~week_vars[monday]

\* C4: an export with no schedule loaded or with no week selected ends in the
\* matching error, writes no file and changes no state.
C4_FailedExportWritesNothing ==
    [][((schedule_data = <<>> \/ \A monday \in DOMAIN week_vars : ~week_vars[monday])
            /\ \E dialog \in {"cancel", "save", "oserror"} : generate_ics(dialog)) =>
           /\ msg' = IF schedule_data = <<>> THEN MsgNoData ELSE MsgNoWeeks
           /\ written' = <<>>
           /\ schedule_data' = schedule_data
           /\ week_vars' = week_vars
           /\ reminder_vars' = reminder_vars]_vars

\* C4 witness: an export has just failed with "no weeks selected" on a loaded
\* schedule whose weeks are all deselected.
C4_Witness ==
    /\ msg = MsgNoWeeks
    /\ written = <<>>
    /\ schedule_data # <<>>
    /\ DOMAIN week_vars # {}
    /\ \A monday \in DOMAIN week_vars : ~week_vars[monday]

\* C7: every date of the ScheduleTable lies in exactly one week bucket, a Monday
\* with Monday <= date < Monday + 7; an export emits each lesson of a date once
\* when that bucket is selected and nothing for the date when it is not.
C7_WeekPartition ==
    /\ \A d \in keys(schedule_data) :
          /\ Cardinality({m \in DOMAIN week_vars : m <= d /\ d < m + 7}) = 1
          /\ \A m \in DOMAIN week_vars : (m <= d /\ d < m + 7) => weekday(m) = 0
    /\ \A m \in DOMAIN week_vars : \E d \in keys(schedule_data) : m <= d /\ d < m + 7
    /\ Saved =>
          \A d \in keys(schedule_data) :
             LET bucket   == CHOOSE m \in DOMAIN week_vars : m <= d /\ d < m + 7
                 subjects == lookup(schedule_data, d).subjects
             IN  IF week_vars[bucket]
                 THEN \A p \in DOMAIN subjects :
                         Cardinality(EventsAt(d, p)) =
                            IF p \in DOMAIN Applicable(d) THEN 1 ELSE 0
                 ELSE EventsOn(d) = {}

\* C7 witness: a calendar was written from a table with two dates in a selected
\* week, one of them a Monday-to-Thursday day, and a second week left out.
C7_Witness ==
    /\ Saved
    /\ \E m1, m2 \in DOMAIN week_vars :
          /\ week_vars[m1] /\ ~week_vars[m2]
          /\ Len(week_dates_of(schedule_data, m1)) = 2
          /\ Len(week_dates_of(schedule_data, m2)) = 1
    /\ VEvents # <<>>

\* the minutes after midnight of "HH:MM", read off the digits
Minutes(t) == (DigitVal(t[1]) * 10 + DigitVal(t[2])) * 60 + DigitVal(t[4]) * 10 + DigitVal(t[5])

\* the recorded period before p in the day's sorted periods (p is not the first)
Predecessor(subjects, p) ==
    CHOOSE q \in DOMAIN subjects :
        q < p /\ \A r \in DOMAIN subjects : r < p => r <= q

\* the end-of-previous-lesson alarms of an event
PrepAlarms(e) ==
    {i \in 1..Len(e.alarms) : e.alarms[i].description = "Next lesson preparation"}

\* C2: a Friday whose DaySchedule has a subject only in period 7 yields no
\* CalendarEvent.
C2_FridaySeventhSkipped ==
    Saved =>
       \A d \in keys(schedule_data) :
          (weekday(d) = 4 /\ DOMAIN lookup(schedule_data, d).subjects = {7})
             => EventsOn(d) = {}

\* C3 as claimed: one non-Friday day {1: subject}, both reminders on: one VEVENT
\* with two VALARM blocks, triggers -15 minutes and 0.
C3_OneEventTwoAlarms ==
    (/\ Saved
     /\ reminder_vars.before_first /\ reminder_vars.end_previous
     /\ Len(schedule_data) = 1
     /\ weekday(schedule_data[1].date) # 4
     /\ DOMAIN schedule_data[1].subjects = {1})
    => /\ Len(VEvents) = 1
       /\ Len(VEvents[1].alarms) = 2
       /\ {VEvents[1].alarms[i].trigger : i \in 1..2} = {-15, 0}

\* C3 as amended: that export yields one VEVENT with exactly one VALARM block,
\* the one 15 minutes before the start; period 1 is the day's first, so it has no
\* end-of-previous-lesson alarm.
C3_OneEventOneAlarm ==
    (/\ Saved
     /\ reminder_vars.before_first /\ reminder_vars.end_previous
     /\ Len(schedule_data) = 1
     /\ weekday(schedule_data[1].date) # 4
     /\ DOMAIN schedule_data[1].subjects = {1})
    => /\ Len(VEvents) = 1
       /\ VEvents[1].summary = schedule_data[1].subjects[1]
       /\ Len(VEvents[1].alarms) = 1
       /\ VEvents[1].alarms[1].trigger = -15
       /\ PrepAlarms(VEvents[1]) = {}

\* C3 witness: the Tuesday 2025-09-02 with only period 1 was exported with both
\* reminders on.
C3_Witness ==
    /\ Saved
    /\ reminder_vars.before_first /\ reminder_vars.end_previous
    /\ Len(schedule_data) = 1
    /\ schedule_data[1].date = date(2025, 9, 2)
    /\ weekday(schedule_data[1].date) = 1
    /\ DOMAIN schedule_data[1].subjects = {1}
    /\ Len(VEvents) = 1

\* C6: with the end-of-previous-lesson reminder on, an event whose period has a
\* predecessor among the day's recorded periods, that predecessor having a time
\* slot, carries one alarm that fires (start minus offset) at the predecessor's
\* end on that date; an event whose period is the day's first, or whose
\* predecessor has no time slot, carries no such alarm.
C6_AlarmAtPreviousEnd ==
    (Saved /\ reminder_vars.end_previous) =>
       \A i \in 1..Len(VEvents) :
          LET e        == VEvents[i]
              d        == DateOf(e)
              p        == e.description
              subjects == lookup(schedule_data, d).subjects
              first    == \A q \in DOMAIN subjects : p <= q
          IN  IF ~first /\ Predecessor(subjects, p) \in DOMAIN Applicable(d)
              THEN /\ Cardinality(PrepAlarms(e)) = 1
                   /\ \A j \in PrepAlarms(e) :
                         /\ e.alarms[j].trigger <= 0
                         /\ e.dtstart + e.alarms[j].trigger =
                               d * 1440
                               + Minutes(Applicable(d)[Predecessor(subjects, p)][2])
              ELSE PrepAlarms(e) = {}

\* C6 witness: a Tuesday with periods 1, 3 and 6 was exported; the period-3 event
\* starts at 09:45 and its alarm fires 15 minutes earlier, at 09:30, the end of
\* period 1.
C6_Witness ==
    /\ Saved /\ reminder_vars.end_previous
    /\ Len(schedule_data) = 1
    /\ weekday(schedule_data[1].date) = 1
    /\ DOMAIN schedule_data[1].subjects = {1, 3, 6}
    /\ \E i \in 1..Len(VEvents) :
          /\ VEvents[i].description = 3
          /\ \E j \in PrepAlarms(VEvents[i]) : VEvents[i].alarms[j].trigger = -15

\* C8: every DaySchedule has a recorded period, every recorded period is in 1..10
\* with a subject that is not empty and not ignored; every event of an export is
\* that of a recorded (date, period) and carries its subject.
C8_NoIgnoredSubject ==
    /\ \A k \in 1..Len(schedule_data) :
          LET subjects == schedule_data[k].subjects
          IN  /\ DOMAIN subjects # {}
              /\ DOMAIN subjects \subseteq 1..10
              /\ \A p \in DOMAIN subjects :
                    /\ subjects[p] # <<>>
                    /\ subjects[p] \notin
                          {<<"#NV">>, <<"Frei">>, <<"Betrieb">>, <<"Feiertag">>, <<>>, <<" ">>}
    /\ Saved =>
          \A i \in 1..Len(VEvents) :
             /\ DateOf(VEvents[i]) \in keys(schedule_data)
             /\ VEvents[i].description
                   \in DOMAIN lookup(schedule_data, DateOf(VEvents[i])).subjects
             /\ VEvents[i].summary =
                   lookup(schedule_data, DateOf(VEvents[i])).subjects[VEvents[i].description]
             /\ VEvents[i].summary \notin
                   {<<"#NV">>, <<"Frei">>, <<"Betrieb">>, <<"Feiertag">>, <<>>, <<" ">>}

\* C8 witness: an export wrote events for a day whose row held "Frei" and "#NV"
\* cells beside the recorded ones.
C8_Witness ==
    /\ Saved /\ VEvents # <<>>
    /\ \E r \in 1..Len(html_file.rows) :
          /\ is_data_row(html_file.rows[r])
          /\ \E c \in 3..12 : strip(html_file.rows[r][c]) = <<"Frei">>
          /\ \E c \in 3..12 : subject_lines(html_file.rows[r][c]) = <<<<"#NV">>, <<"Mathe">>>>

\* C9: every event has start < end and a period with an entry in the table that
\* applies to its date (the Friday table iff the date is a Friday); of a selected
\* date's recorded periods exactly those with an entry are emitted, the others
\* dropped without an error.
C9_EventsHaveTimeSlot ==
    Saved =>
       /\ \A i \in 1..Len(VEvents) :
             LET e == VEvents[i]
             IN  /\ e.dtstart < e.dtend
                 /\ DateOf(e) \in keys(schedule_data)
                 /\ e.description \in DOMAIN Applicable(DateOf(e))
                 /\ e.dtstart = DateOf(e) * 1440
                                + Minutes(Applicable(DateOf(e))[e.description][1])
                 /\ e.dtend = DateOf(e) * 1440
                              + Minutes(Applicable(DateOf(e))[e.description][2])
       /\ \A d \in keys(schedule_data) :
             week_vars[monday_of(d)] =>
                \A p \in DOMAIN lookup(schedule_data, d).subjects :
                   (EventsAt(d, p) # {}) <=> (p \in DOMAIN Applicable(d))

\* C9 witness: a Friday with periods 2, 5 and 7 was exported: period 2 has no
\* time slot and is dropped, periods 5 and 7 are emitted.
C9_Witness ==
    /\ Saved
    /\ Len(schedule_data) = 1
    /\ weekday(schedule_data[1].date) = 4
    /\ DOMAIN schedule_data[1].subjects = {2, 5, 7}
    /\ Len(VEvents) = 2

=============================================================================
